---- MODULE Spec2Model ----
(***************************************************************************)
(* MySensors serial gateway and controller                                 *)
(* (homeassistant/components/mysensors.py).                                *)
(*                                                                         *)
(* A Python str is a sequence of one-character strings, a dict is a        *)
(* function whose DOMAIN is its set of keys, a list is a sequence, an      *)
(* uncaught exception ends the thread or handler that raised it.           *)
(***************************************************************************)
EXTENDS Integers, Sequences, FiniteSets, TLC

(* ------------------------------ bounds -------------------------------- *)

\* Lines the serial link delivers in one run.
MaxLines == 2

(* ------------------------- message type tables ------------------------ *)

\* MyMessageType
presentation == 0
set == 1
req == 2
internal == 3
stream == 4

\* last member of Presentation, SetReq and Internal (each enum is 0..last)
S_SCENE_CONTROLLER == 25
V_CURRENT == 39
I_GATEWAY_READY == 14

\* Internal sub-types the controller acts on
I_ID_REQUEST == 3
I_ID_RESPONSE == 4
I_CONFIG == 6
I_LOG_MESSAGE == 9
I_SKETCH_NAME == 11
I_SKETCH_VERSION == 12

MyMessageType == presentation..stream
Presentation == 0..S_SCENE_CONTROLLER
SetReq == 0..V_CURRENT
Internal == 0..I_GATEWAY_READY

(* ------------------------------ str / int ----------------------------- *)

DigitChars == <<"0", "1", "2", "3", "4", "5", "6", "7", "8", "9">>

IsDigit(c) == \E d \in 1..10 : DigitChars[d] = c

DigitValue(c) == (CHOOSE d \in 1..10 : DigitChars[d] = c) - 1

\* str.isspace for the characters a line can hold
IsSpace(c) == c \in {" ", "\n", "\t", "\r"}

RECURSIVE rstrip(_)
rstrip(s) ==
    IF s = <<>> THEN s
    ELSE IF IsSpace(s[Len(s)]) THEN rstrip(SubSeq(s, 1, Len(s) - 1))
    ELSE s

RECURSIVE lstrip(_)
lstrip(s) ==
    IF s = <<>> THEN s
    ELSE IF IsSpace(s[1]) THEN lstrip(SubSeq(s, 2, Len(s)))
    ELSE s

strip(s) == lstrip(rstrip(s))

\* str(n) for an int n
RECURSIVE str(_)
str(n) ==
    IF n < 0 THEN <<"-">> \o str(-n)
    ELSE IF n < 10 THEN <<DigitChars[n + 1]>>
    ELSE str(n \div 10) \o <<DigitChars[(n % 10) + 1]>>

Unsigned(t) == IF t # <<>> /\ t[1] \in {"+", "-"} THEN SubSeq(t, 2, Len(t)) ELSE t

\* int(s) does not raise ValueError: surrounding whitespace, an optional sign
\* and at least one decimal digit
IsIntLiteral(s) ==
    LET d == Unsigned(strip(s))
    IN  d # <<>> /\ \A i \in 1..Len(d) : IsDigit(d[i])

RECURSIVE DigitsValue(_)
DigitsValue(d) ==
    IF d = <<>> THEN 0
    ELSE 10 * DigitsValue(SubSeq(d, 1, Len(d) - 1)) + DigitValue(d[Len(d)])

\* int(s), for s with IsIntLiteral(s)
int(s) ==
    LET t == strip(s)
    IN  IF t[1] = "-" THEN 0 - DigitsValue(Unsigned(t)) ELSE DigitsValue(Unsigned(t))

\* s.split(sep)
RECURSIVE split(_, _)
split(s, sep) ==
    IF \A i \in 1..Len(s) : s[i] # sep THEN <<s>>
    ELSE LET i == CHOOSE k \in 1..Len(s) :
                      s[k] = sep /\ \A j \in 1..(k - 1) : s[j] # sep
         IN  <<SubSeq(s, 1, i - 1)>> \o split(SubSeq(s, i + 1, Len(s)), sep)

\* sep.join(parts)
RECURSIVE join(_, _)
join(sep, parts) ==
    IF parts = <<>> THEN <<>>
    ELSE IF Len(parts) = 1 THEN parts[1]
    ELSE parts[1] \o <<sep>> \o join(sep, Tail(parts))

(* -------------------------------- codec ------------------------------- *)

MyMessage(n, c, t, a, s, p) ==
    [node_id |-> n, child_id |-> c, message_type |-> t, ack |-> a,
     sub_type |-> s, payload |-> p]

\* MySerialGateway.write: the line put on the link for a message whose
\* payload is a str
Encode(msg) ==
    join(";", <<str(msg.node_id), str(msg.child_id), str(msg.message_type),
                str(msg.ack), str(msg.sub_type), msg.payload>>) \o <<"\n">>

\* _handle_line, lines 400-402: the fields of a line, or the exception raised.
\* int() of a field is evaluated before MyMessage(*fields) checks the arity.
ParseFields(ln) ==
    LET fields == split(ln, ";")
        n == Len(fields)
    IN  IF \E i \in 1..(n - 1) : ~IsIntLiteral(fields[i])
        THEN [err |-> "ValueError"]
        ELSE IF n # 6
        THEN [err |-> "TypeError"]
        ELSE [err |-> "",
              msg |-> MyMessage(int(fields[1]), int(fields[2]), int(fields[3]),
                                int(fields[4]), int(fields[5]), rstrip(fields[6]))]

(* ------------------------------ the link ------------------------------ *)

Wire(fields) == join(";", fields) \o <<"\n">>

\* Lines the gateway device can put on the link: an id request with the ack
\* flag set, a config request, a sketch name and version, an internal sub-type without handler
\* (I_VERSION), a presentation, a presentation with a sub-type outside
\* Presentation, a set, a message_type outside MyMessageType, a line of three
\* fields and a line with a non-integer field.
WireLines ==
    { Wire(<< <<"2","5","5">>, <<"2","5","5">>, <<"3">>, <<"1">>, <<"3">>, <<>> >>),
      Wire(<< <<"1">>, <<"2","5","5">>, <<"3">>, <<"0">>, <<"6">>, <<>> >>),
      Wire(<< <<"1">>, <<"2","5","5">>, <<"3">>, <<"0">>, <<"1","1">>, <<"a">> >>),
      Wire(<< <<"1">>, <<"2","5","5">>, <<"3">>, <<"0">>, <<"1","2">>, <<"2">> >>),
      Wire(<< <<"1">>, <<"2","5","5">>, <<"3">>, <<"0">>, <<"2">>, <<"1",".","4">> >>),
      Wire(<< <<"1">>, <<"2">>, <<"0">>, <<"0">>, <<"6">>, <<"1",".","5">> >>),
      Wire(<< <<"1">>, <<"2">>, <<"0">>, <<"0">>, <<"2","6">>, <<"x">> >>),
      Wire(<< <<"1">>, <<"2">>, <<"1">>, <<"0">>, <<"0">>, <<"2","0">> >>),
      Wire(<< <<"1">>, <<"0">>, <<"7">>, <<"0">>, <<"0">>, <<>> >>),
      Wire(<< <<"1">>, <<"2">>, <<"3">> >>),
      Wire(<< <<"1">>, <<"x">>, <<"0">>, <<"0">>, <<"6">>, <<"a">> >>) }

(* ------------------------------- state -------------------------------- *)

VARIABLES
    conn,         \* MySerialGateway.conn: NoConn (None) or "open"
    stop_event,   \* MySerialGateway._stop_event is set
    listening,    \* run() has registered its EVENT_HOMEASSISTANT_STOP listener
    gpc,          \* position of the gateway thread in run()
    line,         \* the line run() has read and not yet handled
    hassStopped,  \* the host has fired EVENT_HOMEASSISTANT_STOP
    linesRead,    \* every non-empty line readline() returned, in order
    events,       \* every event _handle_line fired on the bus, in order
    bus,          \* fired events whose controller listener has not started
    config,       \* MySensorController.config
    store,        \* the file mysensors.yaml
    unit,         \* hass.config.temperature_unit
    config0,      \* the config MySensorController.__init__ left
    hpc,          \* position of each running listener
    hmsg,         \* msg of each running listener
    hnext,        \* next_id of each running handle_id_request
    handled,      \* listener invocations that ended, with their outcome
    outbox,       \* lines written to the link by write()
    discovered,   \* EVENT_PLATFORM_DISCOVERED notifications fired
    codec,        \* a message passed through write's encoding and the parsing
    connects      \* what each direct call of connect() returned and did

gatewayVars == <<conn, stop_event, listening, gpc, line, hassStopped,
                 linesRead, events>>
hostVars == <<unit, config0>>
controllerVars == <<config, store, hostVars, hpc, hmsg, hnext, handled, outbox,
                    discovered>>
vars == <<conn, stop_event, listening, gpc, line, hassStopped, linesRead,
          events, bus, config, store, unit, config0, hpc, hmsg, hnext, handled,
          outbox, discovered, codec, connects>>

NoConn == "None"
None == [NoneType |-> TRUE]
EmptyDict == [k \in {} |-> 0]
TEMP_CELCIUS == "C"
TEMP_FAHRENHEIT == "F"

\* The bus runs listeners on the threads of a pool.
Workers == {1, 2}

NoMessage == MyMessage(0, 0, 0, 0, 0, <<>>)

(* ------------------------------ registry ------------------------------ *)

\* io.open(config_path) finds the file, and what yaml.load returns
Absent == [exists |-> FALSE, data |-> None]
File(data) == [exists |-> TRUE, data |-> data]

\* read_config: a missing file leaves self.config as it is; None becomes {}
read_config(cfg, st) ==
    LET loaded == IF st.exists THEN st.data ELSE cfg
    IN  IF loaded = None THEN EmptyDict ELSE loaded

\* save_config
save_config(cfg) == File(cfg)

\* not self.config.get(CONF_NODES)
NoNodes(cfg) == "nodes" \notin DOMAIN cfg \/ cfg.nodes = <<>>

NodeIds(cfg) == IF NoNodes(cfg) THEN {} ELSE {cfg.nodes[i].id : i \in DOMAIN cfg.nodes}

\* next_sensor_id counting the nodes instead of taking the greatest id
next_sensor_id_count(cfg) ==
    IF NoNodes(cfg) THEN 1 ELSE Len(cfg.nodes) + 1

\* next_sensor_id
next_sensor_id(cfg) ==
    IF NoNodes(cfg) THEN 1
    ELSE (CHOOSE m \in NodeIds(cfg) : \A k \in NodeIds(cfg) : k <= m) + 1

\* _get_node: the index of the first node with that id; 0 stands for None.
\* Called only where self.config has a "nodes" list.
get_node(cfg, nodeid) ==
    IF \E i \in DOMAIN cfg.nodes : cfg.nodes[i].id = nodeid
    THEN CHOOSE i \in DOMAIN cfg.nodes :
             cfg.nodes[i].id = nodeid /\ \A j \in 1..(i - 1) : cfg.nodes[j].id # nodeid
    ELSE 0

\* node.get(CONF_SENSORS) or the [] that _get_sensor stores
SensorsOf(node) == IF "sensors" \in DOMAIN node THEN node.sensors ELSE <<>>

\* _get_sensor followed by the two assignments of handle_presentation: the
\* node with its sensor sensorid created if missing and type/version set
PresentSensor(node, sensorid, type, version) ==
    LET ss == SensorsOf(node)
        new == [id |-> sensorid, version |-> version, type |-> type]
        at == IF \E i \in DOMAIN ss : ss[i].id = sensorid
              THEN CHOOSE i \in DOMAIN ss :
                       ss[i].id = sensorid /\ \A j \in 1..(i - 1) : ss[j].id # sensorid
              ELSE 0
    IN  [sensors |-> IF at = 0 THEN Append(ss, new) ELSE [ss EXCEPT ![at] = new]] @@ node

\* the files mysensors.yaml can be when the controller is constructed
InitialStores == {Absent, File([nodes |-> <<[id |-> 3], [id |-> 1]>>])}

(* ------------------------------- Init --------------------------------- *)

CodecOff == [stage |-> "off", msg |-> NoMessage, line |-> <<>>, res |-> [err |-> ""]]

\* setup(): MySerialGateway.__init__, then MySensorController.__init__ with
\* its read_config(); gateway.start() has not yet run run().
Init ==
    /\ conn = NoConn
    /\ stop_event = FALSE
    /\ listening = FALSE
    /\ gpc = "start"
    /\ line = <<>>
    /\ hassStopped = FALSE
    /\ linesRead = <<>>
    /\ events = <<>>
    /\ bus = <<>>
    /\ store \in InitialStores
    /\ config = read_config(None, store)
    /\ config0 = config
    /\ unit \in {TEMP_CELCIUS, TEMP_FAHRENHEIT}
    /\ hpc = [w \in Workers |-> "idle"]
    /\ hmsg = [w \in Workers |-> NoMessage]
    /\ hnext = [w \in Workers |-> 0]
    /\ handled = <<>>
    /\ outbox = <<>>
    /\ discovered = <<>>
    /\ codec = CodecOff
    /\ connects = <<>>

(* --------------------------- MySerialGateway -------------------------- *)

\* threading.Event.set() returns None, which `while not ...` reads as false
StopEventSetResult == FALSE

\* run(), lines 372-373: listen_once(EVENT_HOMEASSISTANT_STOP, ...)
RunStart ==
    /\ gpc = "start"
    /\ listening' = TRUE
    /\ gpc' = "while"
    /\ UNCHANGED <<conn, stop_event, line, hassStopped, linesRead, events, bus,
                   controllerVars, codec, connects>>

\* run(), line 374: the loop condition calls _stop_event.set(); line 390 is
\* the close() after the loop
LoopTest ==
    /\ gpc = "while"
    /\ stop_event' = TRUE
    /\ IF ~StopEventSetResult
       THEN gpc' = "connect" /\ conn' = conn
       ELSE gpc' = "done" /\ conn' = NoConn
    /\ UNCHANGED <<listening, line, hassStopped, linesRead, events, bus,
                   controllerVars, codec, connects>>

\* connect() without its test of self.conn: serial.Serial is called anyway
ConnectOutcomesReopens(c) ==
    {[ok |-> TRUE, conn |-> "open", opened |-> TRUE],
     [ok |-> FALSE, conn |-> c, opened |-> FALSE]}

\* connect(): True with the connection kept or opened, False when
\* serial.Serial raises SerialException; opened tells whether a new
\* serial.Serial object was made
ConnectOutcomes(c) ==
    IF c # NoConn THEN {[ok |-> TRUE, conn |-> c, opened |-> FALSE]}
    ELSE {[ok |-> TRUE, conn |-> "open", opened |-> TRUE],
          [ok |-> FALSE, conn |-> NoConn, opened |-> FALSE]}

\* the connection test going on to the read whatever connect() returned
CheckConnectionReadsAnyway ==
    /\ gpc = "connect"
    /\ \E r \in ConnectOutcomes(conn) : conn' = r.conn
    /\ gpc' = "read"
    /\ UNCHANGED <<stop_event, listening, line, hassStopped, linesRead, events,
                   bus, controllerVars, codec, connects>>

\* run(), lines 375-377: if not self.conn and not self.connect(): sleep
CheckConnection ==
    /\ gpc = "connect"
    /\ \E r \in ConnectOutcomes(conn) :
          /\ conn' = r.conn
          /\ gpc' = IF r.ok THEN "read" ELSE "sleep"
    /\ UNCHANGED <<stop_event, listening, line, hassStopped, linesRead, events,
                   bus, controllerVars, codec, connects>>

\* run(), line 376: time.sleep(10), then continue
Sleep ==
    /\ gpc = "sleep"
    /\ gpc' = "while"
    /\ UNCHANGED <<conn, stop_event, listening, line, hassStopped, linesRead,
                   events, bus, controllerVars, codec, connects>>

\* run(), lines 379 and 388: readline() returns a line
ReadLine ==
    /\ gpc = "read"
    /\ Len(linesRead) < MaxLines
    /\ \E ln \in WireLines :
          /\ line' = ln
          /\ linesRead' = Append(linesRead, ln)
    /\ gpc' = "handle"
    /\ UNCHANGED <<conn, stop_event, listening, hassStopped, events, bus,
                   controllerVars, codec, connects>>

\* run(), lines 379 and 388: readline() times out with b''
ReadTimeout ==
    /\ gpc = "read"
    /\ gpc' = "while"
    /\ UNCHANGED <<conn, stop_event, listening, line, hassStopped, linesRead,
                   events, bus, controllerVars, codec, connects>>

\* a SerialException of readline() answered by closing the connection
ReadSerialExceptionCloses ==
    /\ gpc = "read"
    /\ conn' = NoConn
    /\ gpc' = "serial_error"
    /\ UNCHANGED <<stop_event, listening, line, hassStopped, linesRead, events,
                   bus, controllerVars, codec, connects>>

\* run(), lines 379-380: readline() raises SerialException
ReadSerialException ==
    /\ gpc = "read"
    /\ gpc' = "serial_error"
    /\ UNCHANGED <<conn, stop_event, listening, line, hassStopped, linesRead,
                   events, bus, controllerVars, codec, connects>>

\* run(), lines 381-382: the exception is logged, continue
SerialExceptionContinue ==
    /\ gpc = "serial_error"
    /\ gpc' = "while"
    /\ UNCHANGED <<conn, stop_event, listening, line, hassStopped, linesRead,
                   events, bus, controllerVars, codec, connects>>

\* run(), lines 383-385: TypeError, close()
ReadTypeError ==
    /\ gpc = "read"
    /\ conn' = NoConn
    /\ gpc' = "reconnect"
    /\ UNCHANGED <<stop_event, listening, line, hassStopped, linesRead, events,
                   bus, controllerVars, codec, connects>>

\* run(), lines 386-387: connect(), its result ignored, continue
Reconnect ==
    /\ gpc = "reconnect"
    /\ \E r \in ConnectOutcomes(conn) : conn' = r.conn
    /\ gpc' = "while"
    /\ UNCHANGED <<stop_event, listening, line, hassStopped, linesRead, events,
                   bus, controllerVars, codec, connects>>

\* _handle_line, lines 403-417: the event fired for a parsed message; none
\* for a message_type outside MyMessageType (ValueError, caught) or stream
EventsFor(msg) ==
    IF msg.message_type \notin MyMessageType THEN <<>>
    ELSE IF msg.message_type = presentation
    THEN <<[event_type |-> "mysensors_presentation", data |-> msg]>>
    ELSE IF msg.message_type = set
    THEN <<[event_type |-> "mysensors_set", data |-> msg]>>
    ELSE IF msg.message_type = req
    THEN <<[event_type |-> "mysensors_request", data |-> msg]>>
    ELSE IF msg.message_type = internal
    THEN <<[event_type |-> "mysensors_internal", data |-> msg]>>
    ELSE <<>>

\* the new event put before the ones fired earlier
FireAhead(fired, evs) == evs \o fired

\* hass.bus.fire as _handle_line calls it
Fire(fired, evs) == fired \o evs

\* MySensorController.__init__, lines 90-91: the events it listens to
Listened(evs) ==
    SelectSeq(evs, LAMBDA e : e.event_type \in {"mysensors_internal",
                                                "mysensors_presentation"})

\* run(), line 389: _handle_line(line.decode()). An exception of lines
\* 400-402 is caught nowhere and ends the thread, the connection left open.
HandleLine ==
    /\ gpc = "handle"
    /\ LET parsed == ParseFields(line)
       IN  IF parsed.err # ""
           THEN /\ gpc' = "crashed"
                /\ UNCHANGED <<events, bus>>
           ELSE /\ gpc' = "while"
                /\ events' = Fire(events, EventsFor(parsed.msg))
                /\ bus' = bus \o Listened(EventsFor(parsed.msg))
    /\ line' = <<>>
    /\ UNCHANGED <<conn, stop_event, listening, hassStopped, linesRead,
                   controllerVars, codec, connects>>

GatewayThread ==
    \/ RunStart
    \/ LoopTest
    \/ CheckConnection
    \/ Sleep
    \/ ReadLine
    \/ ReadTimeout
    \/ ReadSerialException
    \/ SerialExceptionContinue
    \/ ReadTypeError
    \/ Reconnect
    \/ HandleLine

\* The host fires EVENT_HOMEASSISTANT_STOP; run()'s listener, if registered,
\* sets the stop event (line 373).
HostStop ==
    /\ ~hassStopped
    /\ hassStopped' = TRUE
    /\ stop_event' = (stop_event \/ listening)
    /\ UNCHANGED <<conn, listening, gpc, line, linesRead, events, bus,
                   controllerVars, codec, connects>>

\* write() putting the line on the link whatever conn is
writeIgnoresConn(c, sent, msg) ==
    [ok |-> TRUE, outbox |-> Append(sent, Encode(msg))]

\* write(): the line goes out on the connection; with self.conn None the
\* attribute lookup raises and nothing is sent
write(c, sent, msg) ==
    IF c = NoConn
    THEN [ok |-> FALSE, outbox |-> sent]
    ELSE [ok |-> TRUE, outbox |-> Append(sent, Encode(msg))]

(* ------------------------- MySensorController ------------------------- *)

\* the reply to I_CONFIG with the two units exchanged
ConfigResponseSwapped(msg, u) ==
    [msg EXCEPT !.payload = IF u = TEMP_CELCIUS THEN <<"I">> ELSE <<"M">>]

\* handle_internal, lines 129-136: the reply to I_CONFIG
ConfigResponse(msg, u) ==
    [msg EXCEPT !.payload = IF u = TEMP_CELCIUS THEN <<"M">> ELSE <<"I">>]

\* handle_internal, lines 142-143 and 146-147: node = self._get_node(id);
\* node[key] = payload. _get_node raises TypeError when the config has no
\* "nodes", and the assignment raises it when _get_node returned None.
SetNodeField(cfg, nodeid, key, value) ==
    IF "nodes" \notin DOMAIN cfg THEN [ok |-> FALSE, config |-> cfg]
    ELSE LET i == get_node(cfg, nodeid)
         IN  IF i = 0 THEN [ok |-> FALSE, config |-> cfg]
             ELSE [ok |-> TRUE,
                   config |-> [cfg EXCEPT !.nodes[i] = (key :> value) @@ @]]

\* an unhandled sub-type answered by sending the message back
UnimplementedEchoes(msg, cfg, c, sent) ==
    LET w == write(c, sent, msg)
    IN  [ok |-> w.ok, config |-> cfg, outbox |-> w.outbox]

\* handle_internal, lines 150-152: the else branch only logs a warning
Unimplemented(msg, cfg, c, sent) ==
    [ok |-> TRUE, config |-> cfg, outbox |-> sent]

\* handle_internal for every sub-type but I_ID_REQUEST: whether it returned
\* (ok) or raised, and the config and the link after it
handle_internal(msg, cfg, c, sent, u) ==
    IF msg.sub_type = I_CONFIG
    THEN LET w == write(c, sent, ConfigResponse(msg, u))
         IN  [ok |-> w.ok, config |-> cfg, outbox |-> w.outbox]
    ELSE IF msg.sub_type = I_LOG_MESSAGE
    THEN [ok |-> TRUE, config |-> cfg, outbox |-> sent]
    ELSE IF msg.sub_type = I_SKETCH_NAME
    THEN LET r == SetNodeField(cfg, msg.node_id, "name", msg.payload)
         IN  [ok |-> r.ok, config |-> r.config, outbox |-> sent]
    ELSE IF msg.sub_type = I_SKETCH_VERSION
    THEN LET r == SetNodeField(cfg, msg.node_id, "version", msg.payload)
         IN  [ok |-> r.ok, config |-> r.config, outbox |-> sent]
    ELSE IF msg.sub_type = I_GATEWAY_READY
    THEN [ok |-> TRUE, config |-> cfg, outbox |-> sent]
    ELSE Unimplemented(msg, cfg, c, sent)

Ended(msg, ok) == [msg |-> msg, ok |-> ok]

\* A pool thread runs handle_internal for the oldest pending event
HandleInternal(w) ==
    /\ hpc[w] = "idle"
    /\ bus # <<>>
    /\ Head(bus).event_type = "mysensors_internal"
    /\ Head(bus).data.sub_type # I_ID_REQUEST
    /\ LET msg == Head(bus).data
           r == handle_internal(msg, config, conn, outbox, unit)
       IN  /\ config' = r.config
           /\ outbox' = r.outbox
           /\ handled' = Append(handled, Ended(msg, r.ok))
    /\ bus' = Tail(bus)
    /\ UNCHANGED <<gatewayVars, store, hostVars, hpc, hmsg, hnext, discovered, codec,
                   connects>>

\* handle_internal, line 126, and handle_id_request, lines 157-160
IdRequestStart(w) ==
    /\ hpc[w] = "idle"
    /\ bus # <<>>
    /\ Head(bus).event_type = "mysensors_internal"
    /\ Head(bus).data.sub_type = I_ID_REQUEST
    /\ config' = IF NoNodes(config) THEN ("nodes" :> <<>>) @@ config ELSE config
    /\ hnext' = [hnext EXCEPT ![w] = next_sensor_id(config')]
    /\ hmsg' = [hmsg EXCEPT ![w] = Head(bus).data]
    /\ hpc' = [hpc EXCEPT ![w] = "id_write"]
    /\ bus' = Tail(bus)
    /\ UNCHANGED <<gatewayVars, store, hostVars, handled, outbox, discovered, codec,
                   connects>>

\* the reply to I_ID_REQUEST with the request's ack flag kept
IdResponseKeepsAck(msg, next_id) ==
    [msg EXCEPT !.sub_type = I_ID_RESPONSE, !.payload = str(next_id)]

\* handle_id_request, lines 163-166; write() renders the int payload with str
IdResponse(msg, next_id) ==
    [msg EXCEPT !.ack = 0, !.sub_type = I_ID_RESPONSE, !.payload = str(next_id)]

\* The locals msg and next_id of handle_id_request go when it ends
Return(w, ends) ==
    /\ hmsg' = IF ends THEN [hmsg EXCEPT ![w] = NoMessage] ELSE hmsg
    /\ hnext' = IF ends THEN [hnext EXCEPT ![w] = 0] ELSE hnext

\* handle_id_request going on to the append although write() raised
IdRequestWriteSwallows(w) ==
    /\ hpc[w] = "id_write"
    /\ outbox' = write(conn, outbox, IdResponse(hmsg[w], hnext[w])).outbox
    /\ hpc' = [hpc EXCEPT ![w] = "id_append"]
    /\ UNCHANGED <<gatewayVars, bus, config, store, hostVars, hmsg, hnext,
                   handled, discovered, codec, connects>>

\* handle_id_request, line 167
IdRequestWrite(w) ==
    /\ hpc[w] = "id_write"
    /\ LET r == write(conn, outbox, IdResponse(hmsg[w], hnext[w]))
       IN  /\ outbox' = r.outbox
           /\ IF r.ok
              THEN /\ hpc' = [hpc EXCEPT ![w] = "id_append"]
                   /\ UNCHANGED handled
              ELSE /\ hpc' = [hpc EXCEPT ![w] = "idle"]
                   /\ handled' = Append(handled, Ended(hmsg[w], FALSE))
    /\ Return(w, hpc'[w] = "idle")
    /\ UNCHANGED <<gatewayVars, bus, config, store, hostVars, discovered, codec,
                   connects>>

\* handle_id_request, line 169: KeyError when a reload took "nodes" away
IdRequestAppend(w) ==
    /\ hpc[w] = "id_append"
    /\ IF "nodes" \in DOMAIN config
       THEN /\ config' = [config EXCEPT !.nodes = Append(@, [id |-> hnext[w]])]
            /\ hpc' = [hpc EXCEPT ![w] = "id_save"]
            /\ UNCHANGED handled
       ELSE /\ hpc' = [hpc EXCEPT ![w] = "idle"]
            /\ handled' = Append(handled, Ended(hmsg[w], FALSE))
            /\ UNCHANGED config
    /\ Return(w, hpc'[w] = "idle")
    /\ UNCHANGED <<gatewayVars, bus, store, hostVars, outbox, discovered, codec,
                   connects>>

\* handle_id_request, line 170
IdRequestSave(w) ==
    /\ hpc[w] = "id_save"
    /\ store' = save_config(config)
    /\ hpc' = [hpc EXCEPT ![w] = "idle"]
    /\ handled' = Append(handled, Ended(hmsg[w], TRUE))
    /\ Return(w, TRUE)
    /\ UNCHANGED <<gatewayVars, bus, config, hostVars, outbox, discovered, codec,
                   connects>>

\* handle_presentation: _get_node raises TypeError when the config has no
\* "nodes"; _get_sensor(None, ...) raises AttributeError for an unknown node.
handle_presentation(msg, cfg) ==
    IF "nodes" \notin DOMAIN cfg THEN [ok |-> FALSE, config |-> cfg]
    ELSE LET i == get_node(cfg, msg.node_id)
         IN  IF i = 0 THEN [ok |-> FALSE, config |-> cfg]
             ELSE [ok |-> TRUE,
                   config |-> [cfg EXCEPT !.nodes[i] =
                                  PresentSensor(@, msg.child_id, msg.sub_type,
                                                msg.payload)],
                   node |-> i]

\* A pool thread runs handle_presentation for the oldest pending event:
\* lines 194-197, save_config (198) and the discovery event (200-203)
HandlePresentation(w) ==
    /\ hpc[w] = "idle"
    /\ bus # <<>>
    /\ Head(bus).event_type = "mysensors_presentation"
    /\ LET msg == Head(bus).data
           r == handle_presentation(msg, config)
       IN  /\ config' = r.config
           /\ handled' = Append(handled, Ended(msg, r.ok))
           /\ IF r.ok
              THEN /\ store' = save_config(r.config)
                   /\ discovered' = Append(discovered, r.config.nodes[r.node])
              ELSE UNCHANGED <<store, discovered>>
    /\ bus' = Tail(bus)
    /\ UNCHANGED <<gatewayVars, hostVars, hpc, hmsg, hnext, outbox, codec,
                   connects>>

\* The reload_mysensor_file service: read_config
Reload ==
    /\ config' = read_config(config, store)
    /\ UNCHANGED <<gatewayVars, bus, store, hostVars, hpc, hmsg, hnext, handled,
                   outbox, discovered, codec, connects>>

IdRequestStep(w) ==
    \/ IdRequestWrite(w)
    \/ IdRequestAppend(w)
    \/ IdRequestSave(w)

Dispatch(w) ==
    \/ HandleInternal(w)
    \/ IdRequestStart(w)
    \/ HandlePresentation(w)

(* --------------------------- specifications --------------------------- *)

Next ==
    \/ GatewayThread
    \/ HostStop
    \/ \E w \in Workers : Dispatch(w)
    \/ \E w \in Workers : IdRequestStep(w)
    \/ Reload

Spec == Init /\ [][Next]_vars

\* The gateway thread is scheduled as long as it can run.
FairSpec == Spec /\ WF_vars(GatewayThread)

\* Listeners run one at a time: a listener starts only when none is running,
\* and no reload happens.
NextSeq ==
    \/ GatewayThread
    \/ HostStop
    \/ \E w \in Workers : (\A v \in Workers : hpc[v] = "idle") /\ Dispatch(w)
    \/ \E w \in Workers : IdRequestStep(w)

SpecSeq == Init /\ [][NextSeq]_vars

(* ------------------------ the codec on its own ------------------------ *)

\* Payloads of valid messages: text without the delimiter or a newline
Payloads == {<<>>, <<"a">>, <<"1", ".", "5">>, <<"a", " ", "b">>, <<"a", " ">>}

\* Valid messages: the sub_type is a member of the enum of the message_type
ValidMessages ==
    { MyMessage(n, c, ts[1], a, ts[2], p) :
        n \in {0, 1, 255}, c \in {0, 255}, a \in {0, 1}, p \in Payloads,
        ts \in ({presentation} \X {0, S_SCENE_CONTROLLER})
               \cup ({set, req} \X {0, V_CURRENT})
               \cup ({internal} \X {0, I_GATEWAY_READY}) }

CodecInit ==
    /\ Init
    /\ store = Absent
    /\ unit = TEMP_CELCIUS

\* write(), line 394: the message becomes a line
CodecWrite ==
    /\ codec.stage = "msg"
    /\ codec' = [codec EXCEPT !.stage = "line", !.line = Encode(codec.msg)]
    /\ UNCHANGED <<gatewayVars, bus, controllerVars, connects>>

\* _handle_line, lines 400-402: the line becomes a message again
CodecParse ==
    /\ codec.stage = "line"
    /\ codec' = [codec EXCEPT !.stage = "parsed", !.res = ParseFields(codec.line)]
    /\ UNCHANGED <<gatewayVars, bus, controllerVars, connects>>

\* A caller hands a valid message to write()
CodecPick ==
    /\ codec.stage = "off"
    /\ \E m \in ValidMessages : codec' = [codec EXCEPT !.stage = "msg", !.msg = m]
    /\ UNCHANGED <<gatewayVars, bus, controllerVars, connects>>

CodecNext ==
    \/ CodecPick
    \/ CodecWrite
    \/ CodecParse

CodecSpec == CodecInit /\ [][CodecNext]_vars

(* ------------------ connect() and close() on their own ----------------- *)

\* direct calls of connect() in one run
MaxCalls == 5

\* The host calls connect() itself, run() not started
ApiConnect ==
    /\ gpc = "start"
    /\ Len(connects) < MaxCalls
    /\ \E r \in ConnectOutcomes(conn) :
          /\ conn' = r.conn
          /\ connects' = Append(connects, [ok |-> r.ok, opened |-> r.opened])
    /\ UNCHANGED <<stop_event, listening, gpc, line, hassStopped, linesRead,
                   events, bus, controllerVars, codec>>

\* The host calls close() itself, lines 348-353
ApiClose ==
    /\ gpc = "start"
    /\ conn' = NoConn
    /\ UNCHANGED <<stop_event, listening, gpc, line, hassStopped, linesRead,
                   events, bus, controllerVars, codec, connects>>

ApiNext ==
    \/ ApiConnect
    \/ ApiClose

ApiSpec == Init /\ [][ApiNext]_vars

(* ------------------------------- claims ------------------------------- *)

Last(q) == q[Len(q)]
Front(q) == SubSeq(q, 1, Len(q) - 1)

\* A listener has just taken the oldest pending event
Taken == bus # <<>> /\ bus' = Tail(bus)

IsIdRequest(msg) == msg.message_type = internal /\ msg.sub_type = I_ID_REQUEST
IsConfigRequest(msg) == msg.message_type = internal /\ msg.sub_type = I_CONFIG

\* C1: once the host's stop signal has been raised, the read loop exits and
\* the connection is closed: when run() evaluates its loop condition with the
\* stop signal raised, it leaves the loop and conn is None.
C1_StopEndsRun ==
    [][(hassStopped /\ stop_event /\ gpc = "while" /\ gpc' # gpc)
         => (gpc' = "done" /\ conn' = NoConn)]_vars

\* fewer than six ';'-delimited fields, or a non-integer among the first five
Malformed(ln) ==
    LET f == split(ln, ";")
    IN  Len(f) < 6 \/ \E i \in 1..5 : i <= Len(f) /\ ~IsIntLiteral(f[i])

\* C2: a malformed line is dropped without publishing an event and the read
\* loop keeps running: handling it publishes nothing and takes run() back to
\* its loop condition.
C2_MalformedDropped ==
    [][(gpc = "handle" /\ Malformed(line) /\ gpc' # gpc)
         => (gpc' = "while" /\ events' = events)]_vars

\* C3: node ids in the registry are pairwise distinct in every reachable
\* state, also when two ID_REQUEST handlings overlap.
C3_NodeIdsDistinct ==
    "nodes" \in DOMAIN config =>
        \A i, j \in DOMAIN config.nodes :
            i # j => config.nodes[i].id # config.nodes[j].id

IdRequestsCompleted ==
    Cardinality({i \in DOMAIN handled : IsIdRequest(handled[i].msg) /\ handled[i].ok})

\* C4: the id computed by handle_id_request is 1 for a registry without nodes
\* and otherwise the greatest node id plus one; when the registry held no
\* nodes at construction and N ID_REQUEST handlings have completed one after
\* another, the registry's node ids are 1..N in that order.
C4_SequentialIds ==
    /\ \A w \in Workers :
          hpc[w] = "id_write" =>
              IF NodeIds(config) = {} THEN hnext[w] = 1
              ELSE /\ hnext[w] - 1 \in NodeIds(config)
                   /\ \A k \in NodeIds(config) : k <= hnext[w] - 1
    /\ (NoNodes(config0) /\ \A w \in Workers : hpc[w] = "idle") =>
          IF IdRequestsCompleted = 0 THEN NoNodes(config)
          ELSE /\ "nodes" \in DOMAIN config
               /\ [i \in DOMAIN config.nodes |-> config.nodes[i].id]
                    = [i \in 1..IdRequestsCompleted |-> i]

\* C4's case: two ID_REQUEST handlings completed from an empty registry
C4_Witness ==
    /\ NoNodes(config0)
    /\ \A w \in Workers : hpc[w] = "idle"
    /\ IdRequestsCompleted = 2

\* C5: handling a Presentation for a node that is not in the registry leaves
\* the registry with that node holding exactly the one sensor (id, type,
\* version) and emits exactly one discovery notification carrying the node.
C5_PresentationCreatesNode ==
    [][(/\ Taken
        /\ Head(bus).event_type = "mysensors_presentation"
        /\ Head(bus).data.node_id \notin NodeIds(config))
         => LET msg == Head(bus).data
            IN  /\ msg.node_id \in NodeIds(config')
                /\ \E i \in DOMAIN config'.nodes :
                      /\ config'.nodes[i].id = msg.node_id
                      /\ SensorsOf(config'.nodes[i])
                           = <<[id |-> msg.child_id, version |-> msg.payload,
                                type |-> msg.sub_type]>>
                      /\ discovered' = Append(discovered, config'.nodes[i])]_vars

\* the listener that takes this event looks a node up with _get_node
LooksUpNode(e) ==
    \/ e.event_type = "mysensors_presentation"
    \/ /\ e.event_type = "mysensors_internal"
       /\ e.data.sub_type \in {I_SKETCH_NAME, I_SKETCH_VERSION}

\* C6: looking up a node id that is not registered creates and appends an
\* empty node with that id, so that the registry then holds exactly one node
\* with that id.
C6_GetNodeCreates ==
    [][(/\ Taken
        /\ LooksUpNode(Head(bus))
        /\ Head(bus).data.node_id \notin NodeIds(config))
         => /\ "nodes" \in DOMAIN config'
            /\ Cardinality({i \in DOMAIN config'.nodes :
                              config'.nodes[i].id = Head(bus).data.node_id}) = 1]_vars

EventTypeOf(t) ==
    CASE t = presentation -> "mysensors_presentation"
      [] t = set -> "mysensors_set"
      [] t = req -> "mysensors_request"
      [] t = internal -> "mysensors_internal"

\* for each line of the link, the event of a well-formed line with a
\* message_type that has an event, and none for any other line
LineEvents ==
    [ln \in WireLines |->
        LET p == ParseFields(ln)
        IN  IF ~Malformed(ln) /\ p.err = "" /\ p.msg.message_type \in presentation..internal
            THEN <<[event_type |-> EventTypeOf(p.msg.message_type), data |-> p.msg]>>
            ELSE <<>>]

\* the events of the lines, in the order of the lines
RECURSIVE Delivered(_)
Delivered(lines) ==
    IF lines = <<>> THEN <<>>
    ELSE Delivered(Front(lines)) \o LineEvents[Last(lines)]

\* C7: the events published are those of the lines read, in exactly the order
\* the lines were read, none duplicated or merged (the line run() is about to
\* hand to _handle_line has no event yet).
C7_EventsInReadOrder ==
    events = Delivered(IF gpc = "handle" THEN Front(linesRead) ELSE linesRead)

\* C7's case: two lines read, two different events published
C7_Witness ==
    /\ Len(linesRead) = 2
    /\ Len(events) = 2
    /\ events[1] # events[2]

SubTypesOf(t) ==
    CASE t = presentation -> Presentation
      [] t \in {set, req} -> SetReq
      [] t = internal -> Internal
      [] OTHER -> {}

\* C8: no event is published for a line whose sub_type is not a member of
\* the sub-type enumeration of its message_type.
C8_SubTypeValid ==
    \A i \in DOMAIN events :
        events[i].data.sub_type \in SubTypesOf(events[i].data.message_type)

\* C9: for every valid message, parsing the line write produces for it
\* yields a message equal to it in all six fields.
C9_RoundTrip ==
    codec.stage = "parsed" => (codec.res.err = "" /\ codec.res.msg = codec.msg)

\* C10: a completed handling of an Internal/CONFIG message has written
\* exactly one line, the incoming message with its payload replaced by "M"
\* (unit Celsius) or "I" (otherwise), and has left the registry and its file
\* unchanged; a handling that write() aborted has written nothing.
C10_ConfigReply ==
    [][(/\ Taken
        /\ Head(bus).event_type = "mysensors_internal"
        /\ IsConfigRequest(Head(bus).data))
         => LET msg == Head(bus).data
                payload == IF unit = TEMP_CELCIUS THEN <<"M">> ELSE <<"I">>
            IN  /\ config' = config
                /\ store' = store
                /\ handled' = Append(handled, Last(handled'))
                /\ Last(handled').msg = msg
                /\ IF Last(handled').ok
                   THEN outbox' = Append(outbox,
                            Wire(<<str(msg.node_id), str(msg.child_id),
                                   str(msg.message_type), str(msg.ack),
                                   str(msg.sub_type), payload>>))
                   ELSE outbox' = outbox]_vars

\* C10's case: with a unit other than Celsius, a CONFIG request was handled
\* to completion and its reply is the one line on the link
C10_Witness ==
    /\ unit = TEMP_FAHRENHEIT
    /\ Len(outbox) = 1
    /\ \E i \in DOMAIN handled : IsConfigRequest(handled[i].msg) /\ handled[i].ok

\* the content of mysensors.yaml as a registry; no file is no registry
StoreContent == IF store.exists THEN store.data ELSE EmptyDict

\* C11: the reload service replaces the registry by the content of
\* mysensors.yaml; when the file is absent the registry after a load or a
\* reload has no nodes, whatever it held before. The service can be called
\* in every state, so in every reachable state the registry read_config
\* leaves is the file's content, and is without nodes when there is no file.
C11_ReloadReplaces ==
    LET reloaded == read_config(config, store)
    IN  IF store.exists
        THEN reloaded = StoreContent
        ELSE NoNodes(reloaded)

\* the Internal sub-types handle_internal has a branch for
HandledSubTypes ==
    {I_ID_REQUEST, I_CONFIG, I_LOG_MESSAGE, I_SKETCH_NAME, I_SKETCH_VERSION,
     I_GATEWAY_READY}

\* C12: handling an Internal message whose sub-type has no branch in
\* handle_internal leaves the registry and its file unchanged, writes no
\* line to the gateway, and ends normally.
C12_UnhandledSubType ==
    [][(/\ Taken
        /\ Head(bus).event_type = "mysensors_internal"
        /\ Head(bus).data.sub_type \notin HandledSubTypes)
         => /\ config' = config
            /\ store' = store
            /\ outbox' = outbox
            /\ handled' = Append(handled, Ended(Head(bus).data, TRUE))]_vars

\* C12's case: an I_VERSION message was handled while the gateway was
\* connected, after a reply to an earlier request had gone out
C12_Witness ==
    /\ conn # NoConn
    /\ outbox # <<>>
    /\ handled # <<>>
    /\ Last(handled).msg.message_type = internal
    /\ Last(handled).msg.sub_type \notin HandledSubTypes

\* the ids carried by the ID_RESPONSE lines written to the gateway so far
RepliedIds ==
    {k \in 1..(MaxLines + 4) :
        \E i \in DOMAIN outbox :
            LET p == ParseFields(outbox[i])
            IN  /\ p.err = ""
                /\ p.msg.message_type = internal
                /\ p.msg.sub_type = I_ID_RESPONSE
                /\ p.msg.payload = str(k)}

\* C13: handle_id_request appends the new node and saves the registry before
\* it writes the ID_RESPONSE: in no reachable state has a reply carrying id k
\* been written while mysensors.yaml holds no node with id k.
C13_PersistedBeforeReply ==
    \A k \in RepliedIds : store.exists /\ k \in NodeIds(store.data)

\* the line an ID_RESPONSE to request msg carrying id k is written as
IdReplyLine(msg, k) ==
    Wire(<<str(msg.node_id), str(msg.child_id), str(msg.message_type),
           <<"0">>, str(I_ID_RESPONSE), str(k)>>)

\* C14: a completed ID_REQUEST handling writes exactly one reply, whose
\* sub_type is ID_RESPONSE, whose ack is 0, whose node_id, child_id and
\* message_type are the request's, and whose payload is the id of the one
\* node that handling appended. Step by step for the thread w running it:
\* taking the request writes nothing; the write puts that one line on the
\* link; the append adds one node with the id that was written; the save
\* writes nothing and ends the handling; and until the handling ends its
\* request and its id stay what they were.
C14_IdReply ==
    [][\A w \in Workers :
        /\ (hpc[w] = "idle" /\ hpc'[w] = "id_write")
             => /\ outbox' = outbox
                /\ hmsg'[w] = Head(bus).data
                /\ IsIdRequest(hmsg'[w])
        /\ (hpc[w] = "id_write" /\ hpc'[w] = "id_append")
             => /\ outbox' = Append(outbox, IdReplyLine(hmsg[w], hnext[w]))
                /\ config' = config
        /\ (hpc[w] = "id_append" /\ hpc'[w] = "id_save")
             => /\ config' = [config EXCEPT !.nodes = Append(@, [id |-> hnext[w]])]
                /\ outbox' = outbox
        /\ (hpc[w] = "id_save" /\ hpc'[w] = "idle")
             => /\ outbox' = outbox
                /\ config' = config
                /\ handled' = Append(handled, Ended(hmsg[w], TRUE))
        /\ (hpc[w] # "idle" /\ hpc'[w] # "idle")
             => /\ hmsg'[w] = hmsg[w]
                /\ hnext'[w] = hnext[w]]_vars

\* C14's case: an ID_REQUEST with the ack flag set was handled to completion
\* on a registry that already held nodes, and its reply is on the link
C14_Witness ==
    /\ config0 # EmptyDict
    /\ outbox # <<>>
    /\ \E i \in DOMAIN handled :
          /\ IsIdRequest(handled[i].msg)
          /\ handled[i].msg.ack = 1
          /\ handled[i].ok
          /\ Last(outbox) = IdReplyLine(handled[i].msg, Last(config.nodes).id)

\* the node with this id in registry cfg carries value under key
HasField(cfg, nodeid, key, value) ==
    /\ ~NoNodes(cfg)
    /\ \E i \in DOMAIN cfg.nodes :
          /\ cfg.nodes[i].id = nodeid
          /\ key \in DOMAIN cfg.nodes[i]
          /\ cfg.nodes[i][key] = value

\* C15: after an Internal SKETCH_NAME or SKETCH_VERSION message for a
\* registered node has been handled, the node's name (or version) is the
\* payload both in the registry in memory and in mysensors.yaml.
C15_SketchPersisted ==
    [][(/\ Taken
        /\ Head(bus).event_type = "mysensors_internal"
        /\ Head(bus).data.sub_type \in {I_SKETCH_NAME, I_SKETCH_VERSION}
        /\ Head(bus).data.node_id \in NodeIds(config))
         => LET msg == Head(bus).data
                key == IF msg.sub_type = I_SKETCH_NAME THEN "name" ELSE "version"
            IN  /\ HasField(config', msg.node_id, key, msg.payload)
                /\ store'.exists
                /\ HasField(store'.data, msg.node_id, key, msg.payload)]_vars

\* C16: a SerialException raised by readline() leaves the connection
\* untouched and the loop reads again on the same connection; a TypeError
\* makes the loop close the connection and try to open a new one before the
\* next read. For the SerialException: raising it and logging it leave conn
\* as it is, and from there through the loop condition and the connection
\* test no step changes conn until run() is back at the read. For the
\* TypeError: the step that catches it leaves conn None, and from there run()
\* goes through connect(), which opens a connection or leaves conn None,
\* before it is back at the loop condition.
C16_ReadErrors ==
    [][/\ (gpc = "read" /\ gpc' = "serial_error")
            => (conn # NoConn /\ conn' = conn)
       /\ (gpc = "serial_error")
            => (conn' = conn /\ gpc' \in {"serial_error", "while"})
       /\ (gpc = "while" /\ conn # NoConn)
            => (conn' = conn /\ gpc' \in {"while", "connect"})
       /\ (gpc = "connect" /\ conn # NoConn)
            => (conn' = conn /\ gpc' \in {"connect", "read"})
       /\ (gpc = "read" /\ gpc' = "reconnect")
            => conn' = NoConn
       /\ (gpc = "reconnect")
            => /\ conn = NoConn
               /\ gpc' \in {"reconnect", "while"}
               /\ (conn' # NoConn => gpc' = "while")]_vars

\* C16's case: with lines already read and a reply on the link, readline()
\* has raised SerialException and run() is in its except block
C16_Witness ==
    /\ gpc = "serial_error"
    /\ conn # NoConn
    /\ linesRead # <<>>
    /\ outbox # <<>>

\* C17: the read loop never issues a read while there is no connection.
\* run() is at its readline() call, or in the handler of an exception
\* readline() raised, only with a connection; it is in its back-off sleep
\* only without one, so a failed connect() leads to the sleep and not to the
\* read. This covers the iteration after a TypeError recovery whose
\* re-connect failed, which starts with conn = None.
C17_NoReadWithoutConn ==
    /\ gpc \in {"read", "serial_error"} => conn # NoConn
    /\ gpc = "sleep" => conn = NoConn

\* C17's case: after lines were read the connection was lost to a TypeError,
\* the re-connect failed, and so did the connect() of the next iteration:
\* run() backs off
C17_Witness ==
    /\ gpc = "sleep"
    /\ conn = NoConn
    /\ linesRead # <<>>

\* C18: connect() is idempotent. Called while a connection exists it returns
\* True, makes no new serial.Serial and leaves conn as it is; called while
\* conn is None it either opens the connection and returns True, or on a
\* SerialException returns False with conn still None.
C18_ConnectIdempotent ==
    [][connects' # connects
         => LET r == Last(connects')
            IN  /\ connects' = Append(connects, r)
                /\ IF conn # NoConn
                   THEN r.ok /\ ~r.opened /\ conn' = conn
                   ELSE \/ r.ok /\ r.opened /\ conn' # NoConn
                        \/ ~r.ok /\ ~r.opened /\ conn' = NoConn]_vars

\* C18's case: connect() failed once, then opened the connection, and a
\* further call found it open
C18_Witness ==
    /\ Len(connects) = 3
    /\ connects[1] = [ok |-> FALSE, opened |-> FALSE]
    /\ connects[2] = [ok |-> TRUE, opened |-> TRUE]
    /\ connects[3] = [ok |-> TRUE, opened |-> FALSE]
    /\ conn # NoConn

\* C19: calling write() while the gateway has no connection ends in an error:
\* nothing is written to the link and conn stays None. write() is called by
\* the handling of an I_CONFIG request and by handle_id_request; when either
\* calls it with conn = None the link and conn are left as they were and the
\* handling ends there with the exception.
C19_WriteDisconnected ==
    [][/\ (/\ Taken
           /\ Head(bus).event_type = "mysensors_internal"
           /\ IsConfigRequest(Head(bus).data)
           /\ conn = NoConn)
             => /\ outbox' = outbox
                /\ conn' = NoConn
                /\ handled' = Append(handled, Ended(Head(bus).data, FALSE))
       /\ \A w \in Workers :
            (hpc[w] = "id_write" /\ hpc'[w] # "id_write" /\ conn = NoConn)
             => /\ outbox' = outbox
                /\ conn' = NoConn
                /\ hpc'[w] = "idle"
                /\ handled' = Append(handled, Ended(hmsg[w], FALSE))]_vars

\* C19's case: the connection was lost after a line was read, and the
\* handling of that I_ID_REQUEST ended in write()'s exception, nothing written
C19_Witness ==
    /\ conn = NoConn
    /\ outbox = <<>>
    /\ handled # <<>>
    /\ IsIdRequest(Last(handled).msg)
    /\ ~Last(handled).ok

\* C20: the gateway's stop flag is set only as a consequence of the host's
\* stop event: in every reachable state where the host has not fired
\* EVENT_HOMEASSISTANT_STOP, _stop_event is clear.
C20_StopFlagFollowsHost ==
    ~hassStopped => ~stop_event

\* no listener is running
AllIdle == \A w \in Workers : hpc[w] = "idle"

====
